---------------------------- MODULE Spec2Model ----------------------------
(***************************************************************************)
(* Model of the CSV point importer/exporter for a robot simulation host    *)
(* (importPointsCSV.py, exportPointsCSV.py).                               *)
(*                                                                         *)
(* Numbers.  A Python float is modelled as an integer count of 1e-7        *)
(* ("ticks"): 1.0 is Scale ticks.  The grid is one decimal digit finer     *)
(* than the "%.6f" output format, so formatting really rounds.             *)
(* Text.  A Python str is a sequence of one-character strings.             *)
(***************************************************************************)
EXTENDS Integers, Sequences, FiniteSets, TLC

Scale == 10^7

Abs(v) == IF v < 0 THEN -v ELSE v

Range(f) == {f[x] : x \in DOMAIN f}

None == "None"

(***************************************************************************)
(* Text helpers                                                            *)
(***************************************************************************)
Digits == <<"0", "1", "2", "3", "4", "5", "6", "7", "8", "9">>

DigitChars == {Digits[i] : i \in 1..10}

DigitChar(d) == Digits[d + 1]

DigitVal(c) == CHOOSE d \in 0..9 : Digits[d + 1] = c

\* The characters str.strip() removes.
Whitespace == {" ", "\t", "\r"}

RECURSIVE LStrip(_)
LStrip(s) ==
    IF s # <<>> /\ Head(s) \in Whitespace THEN LStrip(Tail(s)) ELSE s

RECURSIVE RStrip(_)
RStrip(s) ==
    IF s # <<>> /\ s[Len(s)] \in Whitespace
    THEN RStrip(SubSeq(s, 1, Len(s) - 1))
    ELSE s

\* str.strip()
Strip(s) == RStrip(LStrip(s))

\* str.replace(old, new) for one-character old and new
Replace(s, old, new) == [i \in 1..Len(s) |-> IF s[i] = old THEN new ELSE s[i]]

\* str.split(sep) for a one-character sep: always at least one piece, the
\* text before the first sep, between neighbouring ones, after the last
Split(s, sep) ==
    LET at    == {i \in 1..Len(s) : s[i] = sep}
        n     == Cardinality(at)
        cut   == [k \in 0..(n + 1) |->
                    IF k = 0 THEN 0
                    ELSE IF k = n + 1 THEN Len(s) + 1
                    ELSE CHOOSE i \in at :
                            Cardinality({j \in at : j <= i}) = k]
    IN  [k \in 1..(n + 1) |-> SubSeq(s, cut[k - 1] + 1, cut[k] - 1)]

\* sep.join(parts)
RECURSIVE Join(_, _)
Join(parts, sep) ==
    IF parts = <<>> THEN <<>>
    ELSE IF Len(parts) = 1 THEN parts[1]
    ELSE parts[1] \o <<sep>> \o Join(Tail(parts), sep)

(***************************************************************************)
(* float(s): surrounding whitespace is ignored, then an optional sign and  *)
(* a decimal numeral with at least one digit.  Anything else raises        *)
(* ValueError.  (Exponents, "inf" and "nan" are outside the alphabet the   *)
(* model draws its text from.)                                             *)
(***************************************************************************)
RECURSIVE DigitsValue(_)
DigitsValue(ds) ==
    IF ds = <<>> THEN 0
    ELSE 10 * DigitsValue(SubSeq(ds, 1, Len(ds) - 1)) + DigitVal(ds[Len(ds)])

AllDigits(s) == \A i \in 1..Len(s) : s[i] \in DigitChars

\* the fraction digits as ticks: seven digits are kept, the eighth rounds
FracTicks(fs) ==
    LET padded == fs \o <<"0", "0", "0", "0", "0", "0", "0", "0">>
        kept   == DigitsValue(SubSeq(padded, 1, 7))
    IN  IF DigitVal(padded[8]) >= 5 THEN kept + 1 ELSE kept

ValueError == [ok |-> FALSE, val |-> 0]

float(str) ==
    LET s     == Strip(str)
        neg   == s # <<>> /\ Head(s) = "-"
        body  == IF s # <<>> /\ Head(s) \in {"-", "+"} THEN Tail(s) ELSE s
        parts == Split(body, ".")
        ip    == parts[1]
        fp    == IF Len(parts) = 2 THEN parts[2] ELSE <<>>
        mag   == DigitsValue(ip) * Scale + FracTicks(fp)
    IN  IF /\ Len(parts) <= 2
           /\ AllDigits(ip)
           /\ AllDigits(fp)
           /\ Len(ip) + Len(fp) >= 1
        THEN [ok |-> TRUE, val |-> IF neg THEN -mag ELSE mag]
        ELSE ValueError

(***************************************************************************)
(* "%.6f" % v: the value rounded to six decimals (ties to even), an        *)
(* optional "-", the integer digits, ".", six fraction digits.             *)
(***************************************************************************)
DecimalPlaces == 6

RECURSIVE IntDigits(_)
IntDigits(n) ==
    IF n < 10 THEN <<DigitChar(n)>>
    ELSE Append(IntDigits(n \div 10), DigitChar(n % 10))

RECURSIVE FixedDigits(_, _)
FixedDigits(n, k) ==
    IF k = 0 THEN <<>>
    ELSE Append(FixedDigits(n \div 10, k - 1), DigitChar(n % 10))

RoundTo(mag, places) ==
    LET unit == 10^(7 - places)
        q    == mag \div unit
        r    == mag % unit
    IN  IF 2 * r > unit \/ (2 * r = unit /\ q % 2 = 1) THEN q + 1 ELSE q

FormatF(v, places) ==
    LET q == RoundTo(Abs(v), places)
    IN  (IF v < 0 THEN <<"-">> ELSE <<>>)
        \o IntDigits(q \div 10^places)
        \o <<".">>
        \o FixedDigits(q % 10^places, places)

\* "%.5f": one decimal fewer
Format5f(v) == FormatF(v, DecimalPlaces - 1)

\* "%.6f" of the magnitude: the sign is lost
Format6fUnsigned(v) == FormatF(Abs(v), DecimalPlaces)

\* "%.6f" % v
Format6f(v) == FormatF(v, DecimalPlaces)

(***************************************************************************)
(* Radians to degrees on the tick grid: val * 180.0 / math.pi.             *)
(* The quotient is taken by long division, digit by digit, so that no      *)
(* intermediate value leaves the integer range; the result is rounded to   *)
(* the nearest tick.                                                       *)
(***************************************************************************)
\* math.pi on the tick grid, taken to a multiple of 8 ticks so that pi/2
\* and pi/4 are grid values too
math_pi == 31415928

\* <<r * 10^k \div c, r * 10^k % c>> for 0 <= r < c
RECURSIVE LongDiv(_, _, _)
LongDiv(r, c, k) ==
    IF k = 0 THEN <<0, r>>
    ELSE LET prev == LongDiv(r, c, k - 1)
         IN  <<10 * prev[1] + (10 * prev[2]) \div c, (10 * prev[2]) % c>>

\* val * 180.0 / math.pi, for |val| below 3.7 radians
RadToDeg(val) ==
    LET n    == Abs(val)
        q0   == n \div math_pi
        r0   == n % math_pi
        t    == 18 * r0
        frac == LongDiv(t % math_pi, math_pi, 8)
        mag  == q0 * 180 * Scale + (t \div math_pi) * 10^8 + frac[1]
                + (IF 2 * frac[2] >= math_pi THEN 1 ELSE 0)
    IN  IF val < 0 THEN -mag ELSE mag

(***************************************************************************)
(* importPointsCSV.py: one row of parse_csv_data                           *)
(*                                                                         *)
(* The running state of the row loop is a record                           *)
(*   [stmts |-> routine.Statements, count |-> point_count, log |-> prints] *)
(* A statement is [Type, Positions]; a position is                         *)
(*   [PositionInReference |-> matrix, JointValues |-> joint vector].       *)
(* A matrix built by the importer is [P |-> <<x,y,z>>, WPR |-> <<w,p,r>>]; *)
(* the one the host's forward kinematics returns for the radians of a      *)
(* joint vector is [FK |-> that joint vector].                             *)
(***************************************************************************)
VC_STATEMENT_PTPMOTION == "PtpMotion"

Msg(tag, line_num) == [msg |-> tag, line |-> line_num]

\* Cells without the rewrite of semicolons
CellsCommaOnly(line) == Split(line, ",")

\* lines 157-158: separators normalised, then split
Cells(line) == Split(Replace(line, ";", ","), ",")

\* [float(cell.strip()) for cell in cells]
Floats(cells) == [i \in 1..Len(cells) |-> float(Strip(cells[i]))]

AllOk(fs) == \A i \in 1..Len(fs) : fs[i].ok

Vals(fs) == [i \in 1..Len(fs) |-> fs[i].val]

\* vcMatrix: identity(), translateRel(x, y, z)
Translated(x, y, z) == [P |-> <<x, y, z>>, WPR |-> <<0, 0, 0>>]

\* SetWPR that leaves every row the default orientation of a position row
SetWPRIgnored(mtx, w, p, r) == [mtx EXCEPT !.WPR = <<0, 180 * Scale, 0>>]

\* vcMatrix.setWPR(w, p, r)
SetWPR(mtx, w, p, r) == [mtx EXCEPT !.WPR = <<w, p, r>>]

\* RotateRelY180 left out: the matrix stays unrotated
RotateRelY180Skipped(mtx) == mtx

\* vcMatrix.rotateRelY(180) applied to an unrotated matrix: pitch 180
RotateRelY180(mtx) == [mtx EXCEPT !.WPR = <<0, 180 * Scale, 0>>]

Zeros(n) == [i \in 1..n |-> 0]

\* what routine.addStatement creates: a motion statement with one position
\* at the host's default target, or (a host fault) none at all
NewStatement(fault, dof) ==
    [Type |-> VC_STATEMENT_PTPMOTION,
     Positions |-> IF fault = "Positions" THEN <<>>
                   ELSE << [PositionInReference |-> Translated(0, 0, 0),
                            JointValues |-> Zeros(dof)] >>]

\* routine.addStatement(type, index): the statement is inserted at index
InsertAt(seq, index, x) ==
    SubSeq(seq, 1, index) \o <<x>> \o SubSeq(seq, index + 1, Len(seq))

\* what the host does to a row: nothing, addStatement raises, or the new
\* statement has no position
RowFaults == {"none", "addStatement", "Positions"}

\* lines 347-384: one row in coordinates mode
CoordRow(st, cells, line_num, fault) ==
    IF Len(cells) < 3
    THEN [st EXCEPT !.log = Append(@, Msg("insufficient", line_num))]
    ELSE
    LET xyz == Floats(SubSeq(cells, 1, 3))
    IN  IF ~AllOk(xyz)
        THEN [st EXCEPT !.log = Append(@, Msg("invalid_numeric", line_num))]
        ELSE IF fault = "addStatement"
        THEN [st EXCEPT !.log = Append(@, Msg("unexpected_error", line_num))]
        ELSE
        LET statement == NewStatement(fault, 0)
            added == InsertAt(st.stmts, st.count, statement)
            mtx0  == Translated(xyz[1].val, xyz[2].val, xyz[3].val)
            wpr   == IF Len(cells) >= 6 THEN Floats(SubSeq(cells, 4, 6))
                     ELSE <<>>
            badO  == Len(cells) >= 6 /\ ~AllOk(wpr)
            mtx   == IF Len(cells) >= 6 /\ AllOk(wpr)
                     THEN SetWPR(mtx0, wpr[1].val, wpr[2].val, wpr[3].val)
                     ELSE RotateRelY180(mtx0)
            log1  == IF badO
                     THEN Append(st.log, Msg("invalid_orientation", line_num))
                     ELSE st.log
        IN  IF statement.Positions = <<>>
            THEN \* statement.Positions[0] raises IndexError
                 [stmts |-> added, count |-> st.count,
                  log |-> Append(log1, Msg("unexpected_error", line_num))]
            ELSE [stmts |-> InsertAt(st.stmts, st.count,
                               [statement EXCEPT
                                  !.Positions[1].PositionInReference = mtx]),
                  count |-> st.count + 1,
                  log |-> log1]

(***************************************************************************)
(* The host's joint interface as the importer probes it with hasattr:      *)
(*   app: what routine.Program.Component.Application offers                *)
(*   fk:  what the kinematics call does: a transform, a falsy value, or    *)
(*        an exception                                                     *)
(*   pos: where a position keeps joint values                              *)
(*   set: whether writing them raises                                      *)
(*   dof: the length of the position's joint vector                        *)
(***************************************************************************)
HostApi(app, fk, pos, set, dof) ==
    [app |-> app, fk |-> fk, pos |-> pos, set |-> set, dof |-> dof]

\* WriteJoints replacing the host's vector by the row's, whatever its length
WriteJointsAll(target, joint_angles) == joint_angles

\* joint_angles[i] written to the first len(target) slots
WriteJoints(target, joint_angles) ==
    [i \in 1..Len(target) |->
        IF i <= Len(joint_angles) THEN joint_angles[i] ELSE target[i]]

\* lines 200-343: the strategies that put the joint values on the position
SetJointValues(position, joint_angles, api, line_num) ==
    LET viaFK   == api.app \in {"FK", "forwardKinematics"}
        fkOk    == viaFK /\ api.fk = "ok"
        fkLog   == IF viaFK /\ api.fk = "raises"
                   THEN <<Msg("fk_failed", line_num)>> ELSE <<>>
        direct  == ~fkOk
        raises  == direct /\ api.set = "raises" /\ api.pos # "absent"
        frameOk == api.pos \in {"FrameJointValues", "FrameJointConfiguration"}
                   /\ Len(position.JointValues) > 0
        dirOk   == /\ direct
                   /\ ~raises
                   /\ \/ api.pos \in {"setJoints", "JointValues"}
                      \/ frameOk
        dirLog  == IF raises THEN <<Msg("direct_failed", line_num)>> ELSE <<>>
        success == fkOk \/ dirOk
        endLog  == IF success THEN <<>>
                   ELSE <<Msg("joints_not_set", line_num)>>
        pos1    == IF fkOk
                   THEN [position EXCEPT
                           !.PositionInReference = [FK |-> joint_angles]]
                   ELSE IF dirOk /\ api.pos = "setJoints"
                   THEN [position EXCEPT !.JointValues = joint_angles]
                   ELSE IF dirOk
                   THEN [position EXCEPT
                           !.JointValues = WriteJoints(@, joint_angles)]
                   ELSE position
    IN  [position |-> pos1, log |-> fkLog \o dirLog \o endLog,
         success |-> success]

\* lines 161-345: one row in joint_angles mode
JointRow(st, cells, line_num, fault, api) ==
    IF Len(cells) < 1
    THEN [st EXCEPT !.log = Append(@, Msg("insufficient", line_num))]
    ELSE
    LET fs == Floats(cells)
    IN  IF ~AllOk(fs)
        THEN [st EXCEPT !.log = Append(@, Msg("invalid_numeric", line_num))]
        ELSE IF fault = "addStatement"
        THEN [st EXCEPT !.log = Append(@, Msg("unexpected_error", line_num))]
        ELSE
        LET statement == NewStatement(fault, api.dof)
        IN  IF statement.Positions = <<>>
            THEN [st EXCEPT !.stmts = InsertAt(@, st.count, statement),
                            !.count = @ + 1]
            ELSE
            LET set == SetJointValues(statement.Positions[1], Vals(fs),
                                      api, line_num)
            IN  [stmts |-> InsertAt(st.stmts, st.count,
                              [statement EXCEPT !.Positions[1] = set.position]),
                 count |-> st.count + 1,
                 log   |-> st.log \o set.log]

\* ParseRow counting every non-blank row it attempted, dropped or not
ParseRowCountsAttempts(st, rawline, line_num, import_format, fault, api) ==
    LET line == Strip(rawline)
        out  == IF import_format = "joint_angles"
                THEN JointRow(st, Cells(line), line_num, fault, api)
                ELSE CoordRow(st, Cells(line), line_num, fault)
    IN  IF line = <<>> THEN st
        ELSE [out EXCEPT !.count = st.count + 1]

\* lines 150-391: the body of the row loop for one line
ParseRow(st, rawline, line_num, import_format, fault, api) ==
    LET line == Strip(rawline)
    IN  IF line = <<>> THEN st
        ELSE IF import_format = "joint_angles"
        THEN JointRow(st, Cells(line), line_num, fault, api)
        ELSE CoordRow(st, Cells(line), line_num, fault)

\* lines 146-391: the row loop over the lines from line_num on
RECURSIVE ParseLines(_, _, _, _, _)
ParseLines(st, rows, line_num, import_format, api) ==
    IF line_num > Len(rows) THEN st
    ELSE ParseLines(ParseRow(st, rows[line_num], line_num, import_format,
                             "none", api),
                    rows, line_num + 1, import_format, api)

(***************************************************************************)
(* exportPointsCSV.py: unit heuristics and the matrix to W,P,R conversion  *)
(*                                                                         *)
(* A host position is                                                      *)
(*   [JointValues, Frame, WPR, PositionInReference]                        *)
(* where an attribute the host does not offer, or offers empty or falsy,   *)
(* is the empty sequence (the code treats the two alike); a frame is       *)
(* [JointValues, JointConfiguration, WPR]; a transform is                  *)
(*   [P, N, O, A |-> <<x, y, z>>, getWPR |-> <<>> or <<w, p, r>>]          *)
(* and a position also has a kind: "position", "none" for a falsy entry of *)
(* statement.Positions, "raises" for one whose attributes raise.           *)
(***************************************************************************)
\* JointToDegrees with a non-strict test: pi itself passes for degrees
JointToDegreesNonStrict(val) ==
    IF Abs(val) >= math_pi THEN val ELSE RadToDeg(val)

\* lines 243-248: one raw joint value to degrees
JointToDegrees(val) ==
    IF Abs(val) > math_pi THEN val ELSE RadToDeg(val)

\* JointsToDegrees deciding the unit of the whole vector by its first value
JointsToDegreesByFirst(joint_values) ==
    [i \in 1..Len(joint_values) |->
        IF Abs(joint_values[1]) > math_pi THEN joint_values[i]
        ELSE RadToDeg(joint_values[i])]

\* lines 240-249: the loop over one joint vector
JointsToDegrees(joint_values) ==
    [i \in 1..Len(joint_values) |-> JointToDegrees(joint_values[i])]

Truthy(v) == v # <<>>

\* lines 220-294; <<>> stands for the None the code returns (a tuple it
\* returns is never empty)
get_joint_angles_from_position(position) ==
    IF Truthy(position.JointValues)
    THEN JointsToDegrees(position.JointValues)
    ELSE IF Truthy(position.Frame.JointValues)
    THEN JointsToDegrees(position.Frame.JointValues)
    ELSE IF Truthy(position.Frame.JointConfiguration)
    THEN JointsToDegrees(position.Frame.JointConfiguration)
    ELSE <<>>

\* the "< 10" of lines 342, 356, 367
SmallAngleLimit == 10

\* WprToDegrees with the joints' rule: each angle against pi, on its own
WprToDegreesPerAngle(wpr) ==
    [i \in 1..3 |-> IF Abs(wpr[i]) > math_pi THEN wpr[i]
                    ELSE RadToDeg(wpr[i])]

\* lines 340-344: a W,P,R triple read from the host
WprToDegrees(wpr) ==
    IF /\ Abs(wpr[1]) < SmallAngleLimit * Scale
       /\ Abs(wpr[2]) < SmallAngleLimit * Scale
       /\ Abs(wpr[3]) < SmallAngleLimit * Scale
    THEN <<RadToDeg(wpr[1]), RadToDeg(wpr[2]), RadToDeg(wpr[3])>>
    ELSE <<wpr[1], wpr[2], wpr[3]>>

\* math.asin: ValueError outside [-1, 1]; the model's matrices hold only
\* the entries -1, 0, 1 (and 2, which is out of range)
math_asin(x) ==
    IF Abs(x) > Scale THEN ValueError
    ELSE [ok |-> TRUE,
          val |-> CASE x = Scale  -> math_pi \div 2
                    [] x = 0      -> 0
                    [] x = -Scale -> -(math_pi \div 2)]

\* math.cos at the angles math_asin returns; cos(pi/2) is 6e-17 in double
\* arithmetic, below one tick
math_cos(a) ==
    CASE a = 0 -> Scale
      [] Abs(a) = math_pi \div 2 -> 0

\* math.atan2(y, x) for directions on the axes and the diagonals
math_atan2(y, x) ==
    CASE y = 0 /\ x >= 0            -> 0
      [] y = 0 /\ x < 0             -> math_pi
      [] x = 0 /\ y > 0             -> math_pi \div 2
      [] x = 0 /\ y < 0             -> -(math_pi \div 2)
      [] x > 0 /\ y = x             -> math_pi \div 4
      [] x > 0 /\ y = -x            -> -(math_pi \div 4)
      [] x < 0 /\ y = -x            -> 3 * (math_pi \div 4)
      [] x < 0 /\ y = x             -> -(3 * (math_pi \div 4))

\* the 1e-6 of line 406, in ticks
GimbalEps == 10

\* matrix_to_wpr without the gimbal branch of lines 406-410
matrix_to_wprNoLock(matrix) ==
    LET pr == math_asin(-matrix.N[3])
    IN  IF matrix.N = <<>> \/ matrix.O = <<>> \/ matrix.A = <<>> \/ ~pr.ok
        THEN [wpr |-> <<0, 0, 0>>, warned |-> TRUE]
        ELSE [wpr |-> <<RadToDeg(math_atan2(matrix.N[2], matrix.N[1])),
                        RadToDeg(pr.val),
                        RadToDeg(math_atan2(matrix.O[3], matrix.A[3]))>>,
              warned |-> FALSE]

\* matrix_to_wpr clamping nz into [-1, 1] instead of falling back
matrix_to_wprClamped(matrix) ==
    IF matrix.N = <<>> \/ matrix.O = <<>> \/ matrix.A = <<>>
    THEN [wpr |-> <<0, 0, 0>>, warned |-> TRUE]
    ELSE
    LET nz    == IF matrix.N[3] > Scale THEN Scale
                 ELSE IF matrix.N[3] < -Scale THEN -Scale ELSE matrix.N[3]
        p_rad == math_asin(-nz).val
        lock  == Abs(math_cos(p_rad)) < GimbalEps
        w_rad == IF lock THEN math_atan2(matrix.O[1], matrix.A[1])
                 ELSE math_atan2(matrix.N[2], matrix.N[1])
        r_rad == IF lock THEN 0 ELSE math_atan2(matrix.O[3], matrix.A[3])
    IN  [wpr |-> <<RadToDeg(w_rad), RadToDeg(p_rad), RadToDeg(r_rad)>>,
         warned |-> FALSE]

\* lines 377-425; [wpr, warned]: the triple and whether the warning printed;
\* a matrix without N, O or A raises at lines 391-393 into the same except
matrix_to_wpr(matrix) ==
    LET nx == matrix.N[1]   ny == matrix.N[2]   nz == matrix.N[3]
        ox == matrix.O[1]   oz == matrix.O[3]
        ax == matrix.A[1]   az == matrix.A[3]
        pr == math_asin(-nz)
    IN  IF matrix.N = <<>> \/ matrix.O = <<>> \/ matrix.A = <<>> \/ ~pr.ok
        THEN [wpr |-> <<0, 0, 0>>, warned |-> TRUE]
        ELSE
        LET p_rad == pr.val
            cos_p == math_cos(p_rad)
            lock  == Abs(cos_p) < GimbalEps
            w_rad == IF lock THEN math_atan2(ox, ax) ELSE math_atan2(ny, nx)
            r_rad == IF lock THEN 0 ELSE math_atan2(oz, az)
        IN  [wpr |-> <<RadToDeg(w_rad), RadToDeg(p_rad), RadToDeg(r_rad)>>,
             warned |-> FALSE]

HasTriple(v) == Len(v) >= 3

\* lines 322-374
get_wpr_from_position(position, transform) ==
    IF HasTriple(position.WPR)
    THEN [wpr |-> WprToDegrees(position.WPR), warned |-> FALSE]
    ELSE IF HasTriple(position.Frame.WPR)
    THEN [wpr |-> WprToDegrees(position.Frame.WPR), warned |-> FALSE]
    ELSE IF HasTriple(transform.getWPR)
    THEN [wpr |-> WprToDegrees(transform.getWPR), warned |-> FALSE]
    ELSE matrix_to_wpr(transform)

(***************************************************************************)
(* exportPointsCSV.py: write_csv_file                                      *)
(***************************************************************************)
ExportFormats == {"position_only", "full_pose", "joint_angles"}

\* lines 443-460: the text of one record; not ok when formatting raises
\* (a record shorter than the format needs)
FormatLine(point, export_format) ==
    LET need == CASE export_format = "position_only" -> 3
                  [] export_format = "full_pose"     -> 6
                  [] OTHER                           -> Len(point)
    IN  IF Len(point) < need THEN [ok |-> FALSE, text |-> <<>>]
        ELSE [ok |-> TRUE,
              text |-> Join([i \in 1..need |-> Format6f(point[i])], ",")]

\* line 462 for every record: the whole text a successful write leaves
RECURSIVE WriteLines(_, _)
WriteLines(points_data, export_format) ==
    IF points_data = <<>> THEN <<>>
    ELSE FormatLine(Head(points_data), export_format).text \o <<"\n">>
         \o WriteLines(Tail(points_data), export_format)

\* lines 139-157
ok_types == {"PtpMotion", "LinMotion", "Custom", "Path"}

\* lines 185-211 for the positions from pos_idx on; a position whose
\* attributes raise ("Raises") ends the statement with a warning, except in
\* joint_angles mode, where get_joint_angles_from_position catches it
RECURSIVE ExtractPositions(_, _, _, _, _)
ExtractPositions(Positions, pos_idx, upto, export_format, acc) ==
    IF pos_idx > upto THEN acc
    ELSE
    LET position == Positions[pos_idx]
        next(a)  == ExtractPositions(Positions, pos_idx + 1, upto,
                                     export_format, a)
    IN  IF position.kind = "none" THEN next(acc)
        ELSE IF export_format = "joint_angles"
        THEN LET joint_angles ==
                     IF position.kind = "raises" THEN <<>>
                     ELSE get_joint_angles_from_position(position)
             IN  IF joint_angles # <<>>
                 THEN next([acc EXCEPT !.points = Append(@, joint_angles)])
                 ELSE next(acc)
        ELSE IF position.kind = "raises"
        THEN [acc EXCEPT !.log = Append(@, Msg("extract_failed", 0))]
        ELSE
        LET transform == position.PositionInReference
        IN  IF transform.P = <<>> THEN next(acc)
            ELSE IF export_format = "position_only"
            THEN next([acc EXCEPT !.points = Append(@, transform.P)])
            ELSE LET got == get_wpr_from_position(position, transform)
                 IN  next([points |-> Append(acc.points,
                                             transform.P \o got.wpr),
                           log |-> IF got.warned
                                   THEN Append(acc.log, Msg("wpr_failed", 0))
                                   ELSE acc.log])

\* ExtractStatement taking the first position of every accepted statement
ExtractStatementFirstOnly(statement, export_format, acc) ==
    IF (statement.Type \in ok_types \/ Len(statement.Positions) > 1)
       /\ Len(statement.Positions) > 0
    THEN ExtractPositions(statement.Positions, 1, 1, export_format, acc)
    ELSE acc

\* lines 161-215: one statement of the routine; acc is [points, log]
ExtractStatement(statement, export_format, acc) ==
    LET is_valid == statement.Type \in ok_types
        num_positions == Len(statement.Positions)
        has_multiple_positions == num_positions > 1
        positions_to_extract ==
            IF num_positions > 1 THEN num_positions
            ELSE IF num_positions > 0 THEN 1 ELSE 0
    IN  IF is_valid \/ has_multiple_positions
        THEN ExtractPositions(statement.Positions, 1, positions_to_extract,
                              export_format, acc)
        ELSE acc

(***************************************************************************)
(* Bounds and input sets                                                   *)
(***************************************************************************)
\* lines of an imported document
MaxLines == 2

\* statements of the exported routine
MaxStatements == 2

F1 == <<"1">>
F2 == <<"2", ".", "5">>
F3 == <<" ", "-", "3">>
Fx == <<"x">>

\* the lines documents are made of: blank, whitespace, position rows with
\* either separator, a short row, a non-numeric row, pose rows
DocLines ==
    { <<>>,
      <<" ">>,
      Join(<<F1, F2, F3>>, ","),
      Join(<<F3, F1>>, ";"),
      Join(<<F1, Fx, F3>>, ","),
      Join(<<F1, F2, F3, F2, F1, F3>>, ";"),
      Join(<<F1, F2, F3, Fx, F1, F3>>, ",") }

RECURSIVE SeqsUpTo(_, _)
SeqsUpTo(S, n) ==
    IF n = 0 THEN {<<>>}
    ELSE LET shorter == SeqsUpTo(S, n - 1)
         IN  shorter \cup {Append(q, x) : q \in shorter, x \in S}

\* file contents: up to MaxLines lines joined by newlines
Documents == {Join(ls, "\n") : ls \in SeqsUpTo(DocLines, MaxLines)}

HostApis ==
    { HostApi("FK", "ok", "absent", "ok", 0),
      HostApi("FK", "raises", "setJoints", "ok", 0),
      HostApi("forwardKinematics", "falsy", "JointValues", "ok", 2),
      HostApi("absent", "ok", "setJoints", "raises", 0),
      HostApi("absent", "ok", "FrameJointValues", "ok", 0),
      HostApi("absent", "ok", "FrameJointConfiguration", "ok", 6),
      HostApi("absent", "ok", "absent", "ok", 0) }

\* transforms of exported positions: entries of the rotation part are
\* -1, 0, 1, and 2 for a matrix that is not a rotation
Transform(P, N, O, A, getWPR) ==
    [P |-> P, N |-> N, O |-> O, A |-> A, getWPR |-> getWPR]

Unit == Scale

\* a falsy PositionInReference
NoTransform == Transform(<<>>, <<>>, <<>>, <<>>, <<>>)

TIdentity ==
    Transform(<<12 * Scale + 5, -3, 0>>,
              <<Unit, 0, 0>>, <<0, Unit, 0>>, <<0, 0, Unit>>, <<>>)

TGimbal ==
    Transform(<<Scale, 2 * Scale, 3 * Scale>>,
              <<0, 0, -Unit>>, <<Unit, 0, 0>>, <<-Unit, Unit, 0>>, <<>>)

TBroken ==
    Transform(<<Scale, 0, -Scale>>,
              <<0, 0, 2 * Unit>>, <<0, Unit, 0>>, <<Unit, 0, 0>>, <<>>)

TNative ==
    Transform(<<0, 0, 5 * Scale>>,
              <<Unit, 0, 0>>, <<0, Unit, 0>>, <<0, 0, Unit>>,
              <<35 * (Scale \div 10), 0, 0>>)

Frame(JointValues, JointConfiguration, WPR) ==
    [JointValues |-> JointValues, JointConfiguration |-> JointConfiguration,
     WPR |-> WPR]

NoFrame == Frame(<<>>, <<>>, <<>>)

Position(JointValues, frame, WPR, transform) ==
    [kind |-> "position", JointValues |-> JointValues, Frame |-> frame,
     WPR |-> WPR, PositionInReference |-> transform]

Bare(transform) == Position(<<>>, NoFrame, <<>>, transform)

NoPosition == [Bare(NoTransform) EXCEPT !.kind = "none"]

RaisingPosition == [Bare(NoTransform) EXCEPT !.kind = "raises"]

ExportPositions ==
    { Position(<<math_pi, 3 * Scale, 4 * Scale>>, NoFrame, <<>>, TIdentity),
      Position(<<>>, Frame(<<-Scale, 90 * Scale>>, <<>>, <<>>), <<>>, TGimbal),
      Bare(TBroken),
      Position(<<>>, Frame(<<>>, <<Scale>>, <<90 * Scale, Scale \div 2, 0>>),
               <<>>, TNative),
      Bare(NoTransform),
      RaisingPosition,
      NoPosition }

ExportStatements ==
    {[Type |-> t, Positions |-> <<p>>] :
        t \in {"PtpMotion", "LinMotion", "Comment"}, p \in ExportPositions}
    \cup {[Type |-> "Custom", Positions |-> <<>>]}
    \cup {[Type |-> t, Positions |-> <<p, q>>] :
            t \in {"Path", "Process"},
            p \in {Bare(TBroken), RaisingPosition},
            q \in {Position(<<Scale>>, NoFrame, <<0, 0, 0>>, TGimbal)}}

\* what app.messageBox returns for an OK/Cancel and for a Yes/No box; CLOSED
\* stands for any other result
OkCancelResults == {"OK", "CANCEL", "CLOSED"}

YesNoResults == {"YES", "NO", "CLOSED"}

\* rows for the row decoder taken alone: the fields of a row, to be joined
\* by every mix of the two separators
RowFields ==
    { <<F1>>,
      <<Fx>>,
      <<F1, F2>>,
      <<F1, F2, F3>>,
      <<F1, <<>>, F3>>,
      <<F2, F3, F1, F1>>,
      <<F1, F2, F3, F2, F1, F3>>,
      <<F1, F2, F3, F2, Fx, F3>>,
      <<F1, F2, F3, F2, F1, F3, F2>> }

\* fields[1] seps[1] fields[2] ... seps[k-1] fields[k]
RECURSIVE JoinWith(_, _)
JoinWith(fields, seps) ==
    IF Len(fields) = 1 THEN fields[1]
    ELSE fields[1] \o <<seps[1]>> \o JoinWith(Tail(fields), Tail(seps))

SepChoices(fields) == [1..(Len(fields) - 1) -> {",", ";"}]

\* joints of an exported position
MaxJoints == 2

\* raw joint values: around pi on both sides, radians below it, degrees
RawJoints ==
    { 0, 3 * Scale, math_pi, math_pi + 1, -math_pi, -(math_pi + 1),
      4 * Scale, 90 * Scale }

JointVectors == SeqsUpTo(RawJoints, MaxJoints)

OtherVectors == {<<>>, <<-45 * Scale, Scale>>}

\* positions that keep a joint vector on the position, on its frame's
\* JointValues or on its frame's JointConfiguration, beside what the
\* other two places hold
JointPositions ==
    {Position(v, Frame(a, b, <<>>), <<>>, NoTransform) :
        v \in JointVectors, a \in OtherVectors, b \in OtherVectors}
    \cup {Position(a, Frame(v, b, <<>>), <<>>, NoTransform) :
        v \in JointVectors, a \in OtherVectors, b \in OtherVectors}
    \cup {Position(a, Frame(b, v, <<>>), <<>>, NoTransform) :
        v \in JointVectors, a \in OtherVectors, b \in OtherVectors}

\* raw orientation angles: radians below pi, between pi and the limit of
\* 10, the limit itself, degrees
RawAngles ==
    { 0, Scale \div 2, -3 * Scale, 35 * (Scale \div 10), 10 * Scale,
      90 * Scale, -45 * Scale }

RawTriples == {<<w, p, r>> : w \in RawAngles, p \in RawAngles, r \in RawAngles}

\* what the places not read hold: nothing, too few angles, a triple
OtherTriples == {<<>>, <<Scale>>, <<90 * Scale, 0, Scale>>}

WithWPR(transform, wpr) == [transform EXCEPT !.getWPR = wpr]

\* positions that keep W,P,R on the position, on its frame or behind
\* transform.getWPR(), and positions that keep it nowhere
WprPositions ==
    {Position(<<>>, Frame(<<>>, <<>>, a), t, WithWPR(TIdentity, b)) :
        t \in RawTriples, a \in OtherTriples, b \in {<<>>}}
    \cup {Position(<<>>, Frame(<<>>, <<>>, t), a, WithWPR(TGimbal, b)) :
        t \in RawTriples, a \in {<<>>, <<Scale>>}, b \in OtherTriples}
    \cup {Position(<<>>, Frame(<<>>, <<>>, a), b, WithWPR(TBroken, t)) :
        t \in RawTriples, a \in {<<>>, <<Scale>>}, b \in {<<>>, <<Scale>>}}
    \cup {Bare(TGimbal), Bare(TBroken)}

Entries == {-Unit, 0, Unit}

\* transforms whose rotation part holds every combination of -1, 0, 1 in
\* the seven entries matrix_to_wpr reads, nz also 2; one without N, O, A
Matrices ==
    {Transform(<<Scale, -2 * Scale, 5>>, <<nx, ny, nz>>, <<ox, 0, oz>>,
               <<ax, 0, az>>, <<>>) :
        nx \in Entries, ny \in Entries, nz \in Entries \cup {2 * Unit},
        ox \in Entries, oz \in Entries, ax \in Entries, az \in Entries}
    \cup {Transform(<<Scale, -2 * Scale, 5>>, <<>>, <<>>, <<>>, <<>>)}

\* the position after the converted one in a path statement
Follower == Position(<<Scale>>, NoFrame, <<0, 90 * Scale, 0>>, TGimbal)

\* records of a written list
MaxPoints == 2

\* coordinates: zero, values that round up, down, to even and to zero behind
\* a sign, a carry into the integer digits, several integer digits
Coordinates ==
    { <<0, 5, -3>>,
      <<-4, 15, 25>>,
      <<9999996, -9999995, 10 * Scale>>,
      <<12 * Scale + 5, -3 * Scale, Scale \div 2>>,
      <<-(200 * Scale + 1234567), 7, 99 * Scale + 9999999>>,
      <<Scale, 2 * Scale, 3 * Scale>>,
      <<-6, 14, -(Scale + 26)>> }

Orientations == {<<0, 180 * Scale, 0>>, <<-90 * Scale + 4, 5, 1718873305>>}

\* the records extract_points_from_routine makes for each format
RecordsOf(export_format) ==
    CASE export_format = "position_only" -> Coordinates
      [] export_format = "full_pose" ->
            {c \o o : c \in Coordinates, o \in Orientations}
      [] OTHER ->
            {<<90 * Scale>>, <<-5, 1800000000>>, <<0, 15, -45 * Scale>>,
             <<Scale, -Scale, 25, 0, 10 * Scale + 5, -180 * Scale>>}

CodecInputs ==
    UNION {{[points |-> ps, format |-> f] :
                ps \in SeqsUpTo(RecordsOf(f), MaxPoints) \ {<<>>}} :
           f \in ExportFormats}

(***************************************************************************)
(* State                                                                   *)
(***************************************************************************)
VARIABLES
    cmd,            \* the command the user started
    program_before, \* the program's routines when OnStart was called
    pc,             \* where OnStart is
    ret,            \* what OnStart returned ("True", "False"), "Raises" when
                    \* an exception left it, None while it runs
    log,            \* what was printed
    routines,       \* the program: the statements of each routine it has
    first_choice,   \* the answer to the (first) format prompt
    second_choice,  \* the answer to the export's second format prompt
    overwrite_choice, \* import: the answer to the overwrite prompt
    input_data,     \* import: the text read from the file
    import_format,
    host_api,       \* import: the joint interface of the host
    lines,          \* import: input_data.split("\n")
    line_num,       \* import: rows already processed
    point_count,
    export_format,
    Statements,     \* export: the active routine's statements visited
    points_data,
    file,           \* export: the target file, [exists, text]
    written,        \* export: records already written
    args,           \* the input of a function considered alone
    result          \* and its result

importVars == <<input_data, import_format, host_api, lines, line_num,
                point_count>>

exportVars == <<export_format, Statements, points_data, file, written>>

promptVars == <<first_choice, second_choice, overwrite_choice>>

pureVars == <<args, result>>

vars == <<cmd, program_before, pc, ret, log, routines, promptVars,
          importVars, exportVars,
          pureVars>>

\* the routine named after the imported file
FileRoutine == "points_csv"

\* a statement left by an earlier import
OldStatement ==
    [Type |-> VC_STATEMENT_PTPMOTION,
     Positions |-> << [PositionInReference |-> Translated(0, 0, 0),
                      JointValues |-> <<>>] >>]

\* no routine of that name yet
NoRoutines == [r \in {} |-> <<>>]

\* program.findRoutine(name)
HasRoutine(name) == name \in DOMAIN routines

\* a program with routine name holding stmts
WithRoutine(name, stmts) ==
    [r \in DOMAIN routines \cup {name} |->
        IF r = name THEN stmts ELSE routines[r]]

NoFile == [exists |-> FALSE, text |-> <<>>]

NoApi == HostApi("absent", "ok", "absent", "ok", 0)

Idle ==
    /\ ret = None
    /\ log = <<>>
    /\ first_choice = None
    /\ second_choice = None
    /\ overwrite_choice = None
    /\ input_data = <<>>
    /\ import_format = None
    /\ host_api = NoApi
    /\ lines = <<>>
    /\ line_num = 0
    /\ point_count = 0
    /\ export_format = None
    /\ Statements = <<>>
    /\ points_data = <<>>
    /\ file = NoFile
    /\ written = 0

Init ==
    /\ Idle
    /\ pc = "start"
    /\ args = <<>>
    /\ result = <<>>
    /\ \/ cmd = "importPointsCSV"
          /\ routines \in {NoRoutines} \cup
                 {[r \in {FileRoutine} |-> s] : s \in {<<>>, <<OldStatement>>}}
       \/ cmd = "exportPointsCSV"
          /\ routines = NoRoutines
    /\ program_before = routines

Return(value, msg) ==
    /\ ret' = value
    /\ pc' = "done"
    /\ log' = Append(log, Msg(msg, 0))

\* an exception of a host call that no try encloses leaves OnStart
Raise ==
    /\ ret' = "Raises"
    /\ pc' = "done"
    /\ UNCHANGED log

\* program.deleteRoutine(routine)
WithoutRoutine(name) == [r \in DOMAIN routines \ {name} |-> routines[r]]

\* the host calls of lines 103-120 that may raise
RoutineFaults == {"none", "findRoutine", "deleteRoutine", "addRoutine"}

(***************************************************************************)
(* importPointsCSV.OnStart                                                 *)
(***************************************************************************)
\* lines 62-66
ImportCheckRoutine ==
    /\ cmd = "importPointsCSV" /\ pc = "start"
    /\ \E active_routine \in BOOLEAN :
          IF active_routine
          THEN pc' = "dialog" /\ UNCHANGED <<ret, log>>
          ELSE Return("False", "select_robot")
    /\ UNCHANGED <<cmd, program_before,
                   routines, promptVars, importVars, exportVars, pureVars>>

\* lines 68-78
ImportDialog ==
    /\ cmd = "importPointsCSV" /\ pc = "dialog"
    /\ \E Param_2 \in BOOLEAN :
          IF Param_2
          THEN pc' = "read" /\ UNCHANGED <<ret, log>>
          ELSE Return("False", "no_file_selected")
    /\ UNCHANGED <<cmd, program_before,
                   routines, promptVars, importVars, exportVars, pureVars>>

\* lines 88-94
ImportRead ==
    /\ cmd = "importPointsCSV" /\ pc = "read"
    /\ \/ /\ \E text \in Documents : input_data' = text
          /\ pc' = "format"
          /\ UNCHANGED <<ret, log>>
       \/ /\ Return("False", "error_reading_file")
          /\ UNCHANGED input_data
    /\ UNCHANGED <<cmd, program_before,
                   routines, promptVars, import_format, host_api, lines,
                   line_num, point_count, exportVars, pureVars>>

\* lines 27-49
get_import_format(choice) ==
    IF choice = "OK" THEN "coordinates"
    ELSE IF choice = "CANCEL" THEN "joint_angles"
    ELSE None

\* lines 96-100
ImportFormat ==
    /\ cmd = "importPointsCSV" /\ pc = "format"
    /\ \E choice \in OkCancelResults :
          /\ first_choice' = choice
          /\ import_format' = get_import_format(choice)
          /\ IF get_import_format(choice) = None
             THEN Return("False", "import_cancelled")
             ELSE pc' = "routine" /\ UNCHANGED <<ret, log>>
    /\ UNCHANGED <<cmd, program_before,
                   routines, second_choice, overwrite_choice, input_data,
                   host_api, lines,
                   line_num, point_count, exportVars, pureVars>>

\* lines 102-120
ImportRoutine ==
    /\ cmd = "importPointsCSV" /\ pc = "routine"
    /\ \E fault \in RoutineFaults :
          IF fault = "findRoutine"
          THEN Raise /\ UNCHANGED <<routines, overwrite_choice>>
          ELSE IF HasRoutine(FileRoutine)
          THEN \E answer \in OkCancelResults :
                  /\ overwrite_choice' = answer
                  /\ IF answer = "CANCEL"
                     THEN Return("False", "overwrite_cancelled")
                          /\ UNCHANGED routines
                     ELSE IF fault = "deleteRoutine"
                     THEN Raise /\ UNCHANGED routines
                     ELSE IF fault = "addRoutine"
                     THEN Raise /\ routines' = WithoutRoutine(FileRoutine)
                     ELSE /\ routines' = WithRoutine(FileRoutine, <<>>)
                          /\ pc' = "split"
                          /\ UNCHANGED <<ret, log>>
          ELSE /\ UNCHANGED overwrite_choice
               /\ IF fault = "addRoutine"
                  THEN Raise /\ UNCHANGED routines
                  ELSE /\ routines' = WithRoutine(FileRoutine, <<>>)
                       /\ pc' = "split"
                       /\ UNCHANGED <<ret, log>>
    /\ UNCHANGED <<cmd, program_before,
                   first_choice, second_choice, importVars, exportVars,
                   pureVars>>

\* lines 146-148; the host's joint interface is fixed from here on
ImportSplit ==
    /\ cmd = "importPointsCSV" /\ pc = "split"
    /\ lines' = Split(input_data, "\n")
    /\ point_count' = 0
    /\ line_num' = 0
    /\ host_api' \in IF import_format = "joint_angles" THEN HostApis
                     ELSE {NoApi}
    /\ pc' = "rows"
    /\ UNCHANGED <<cmd, program_before,
                   ret, log, routines, promptVars, input_data,
                   import_format, exportVars, pureVars>>

\* lines 150-391: one turn of the row loop
ImportRow ==
    /\ cmd = "importPointsCSV" /\ pc = "rows"
    /\ line_num < Len(lines)
    /\ \E fault \in RowFaults :
          LET st == ParseRow([stmts |-> routines[FileRoutine],
                              count |-> point_count, log |-> log],
                             lines[line_num + 1], line_num + 1,
                             import_format, fault, host_api)
          IN  /\ routines' = [routines EXCEPT ![FileRoutine] = st.stmts]
              /\ point_count' = st.count
              /\ log' = st.log
    /\ line_num' = line_num + 1
    /\ UNCHANGED <<cmd, program_before,
                   pc, ret, promptVars, input_data, import_format,
                   host_api, lines, exportVars, pureVars>>

\* lines 393, 123-131
ImportReturn ==
    /\ cmd = "importPointsCSV" /\ pc = "rows"
    /\ line_num = Len(lines)
    /\ IF point_count # 0
       THEN \/ Return("True", "imported")
            \/ Raise    \* app.render() raises
       ELSE Return("False", "no_valid_points")
    /\ UNCHANGED <<cmd, program_before,
                   routines, promptVars, importVars, exportVars, pureVars>>

ImportNext ==
    \/ ImportCheckRoutine
    \/ ImportDialog
    \/ ImportRead
    \/ ImportFormat
    \/ ImportRoutine
    \/ ImportSplit
    \/ ImportRow
    \/ ImportReturn

(***************************************************************************)
(* exportPointsCSV.OnStart                                                 *)
(***************************************************************************)
\* lines 41-45
ExportCheckRoutine ==
    /\ cmd = "exportPointsCSV" /\ pc = "start"
    /\ \E active_routine \in BOOLEAN :
          IF active_routine
          THEN pc' = "dialog" /\ UNCHANGED <<ret, log>>
          ELSE Return("False", "select_routine")
    /\ UNCHANGED <<cmd, program_before,
                   routines, promptVars, importVars, exportVars, pureVars>>

\* lines 47-57
ExportDialog ==
    /\ cmd = "exportPointsCSV" /\ pc = "dialog"
    /\ \E Param_2 \in BOOLEAN :
          IF Param_2
          THEN pc' = "format" /\ UNCHANGED <<ret, log>>
          ELSE Return("False", "no_file_selected")
    /\ UNCHANGED <<cmd, program_before,
                   routines, promptVars, importVars, exportVars, pureVars>>

\* lines 86-125, given the answers to the two prompts
get_export_format(first, second) ==
    IF first = "CANCEL" THEN "position_only"
    ELSE IF first = "OK"
    THEN IF second = "YES" THEN "full_pose"
         ELSE IF second = "NO" THEN "joint_angles"
         ELSE None
    ELSE None

\* lines 63-67: the first prompt, and the second one if it is shown
ExportFormat ==
    /\ cmd = "exportPointsCSV" /\ pc = "format"
    /\ \E first \in OkCancelResults :
          \E second \in IF first = "OK" THEN YesNoResults ELSE {None} :
             /\ first_choice' = first
             /\ second_choice' = second
             /\ export_format' = get_export_format(first, second)
             /\ IF get_export_format(first, second) = None
                THEN Return("False", "export_cancelled")
                ELSE pc' = "extract" /\ UNCHANGED <<ret, log>>
    /\ UNCHANGED <<cmd, program_before,
                   routines, overwrite_choice, importVars, Statements,
                   points_data, file, written, pureVars>>

\* lines 161-215: the loop reaches the routine's next statement
ExportExtract ==
    /\ cmd = "exportPointsCSV" /\ pc = "extract"
    /\ Len(Statements) < MaxStatements
    /\ \E statement \in ExportStatements :
          LET got == ExtractStatement(statement, export_format,
                                      [points |-> points_data, log |-> log])
          IN  /\ Statements' = Append(Statements, statement)
              /\ \/ /\ points_data' = got.points
                    /\ log' = got.log
                    /\ UNCHANGED <<pc, ret>>
                 \/ \* statement.Type or statement.Positions raises at
                    \* lines 163-168, before the try of line 171
                    /\ Raise
                    /\ UNCHANGED points_data
    /\ UNCHANGED <<cmd, program_before,
                   routines, promptVars, importVars, export_format,
                   file, written, pureVars>>

\* lines 217, 70-73: the routine has no more statements
ExportExtracted ==
    /\ cmd = "exportPointsCSV" /\ pc = "extract"
    /\ IF points_data = <<>>
       THEN Return("False", "no_valid_points")
       ELSE pc' = "open" /\ UNCHANGED <<ret, log>>
    /\ UNCHANGED <<cmd, program_before,
                   routines, promptVars, importVars, exportVars, pureVars>>

\* line 441: open(filepath, "w") truncates the file, or raises IOError
ExportOpen ==
    /\ cmd = "exportPointsCSV" /\ pc = "open"
    /\ \/ /\ file' = [exists |-> TRUE, text |-> <<>>]
          /\ pc' = "write"
          /\ UNCHANGED <<ret, log>>
       \/ /\ Return("False", "error_writing_file")
          /\ UNCHANGED file
    /\ UNCHANGED <<cmd, program_before,
                   routines, promptVars, importVars, export_format,
                   Statements, points_data, written, pureVars>>

\* lines 442-462: one record is formatted and written, or the write raises
ExportWrite ==
    /\ cmd = "exportPointsCSV" /\ pc = "write"
    /\ written < Len(points_data)
    /\ LET line == FormatLine(points_data[written + 1], export_format)
       IN  \/ /\ line.ok
              /\ file' = [file EXCEPT !.text = @ \o line.text \o <<"\n">>]
              /\ written' = written + 1
              /\ UNCHANGED <<pc, ret, log>>
           \/ /\ Return("False", "error_writing_file")
              /\ UNCHANGED <<file, written>>
    /\ UNCHANGED <<cmd, program_before,
                   routines, promptVars, importVars, export_format,
                   Statements, points_data, pureVars>>

\* lines 464, 78-80
ExportReturn ==
    /\ cmd = "exportPointsCSV" /\ pc = "write"
    /\ written = Len(points_data)
    /\ Return("True", "exported")
    /\ UNCHANGED <<cmd, program_before,
                   routines, promptVars, importVars, exportVars, pureVars>>

ExportNext ==
    \/ ExportCheckRoutine
    \/ ExportDialog
    \/ ExportFormat
    \/ ExportExtract
    \/ ExportExtracted
    \/ ExportOpen
    \/ ExportWrite
    \/ ExportReturn

Next == ImportNext \/ ExportNext

Spec == Init /\ [][Next]_vars

(***************************************************************************)
(* Functions taken alone: args holds the input, one step applies the       *)
(* function and leaves its value in result.                                *)
(***************************************************************************)
Call(name, inputs) ==
    /\ Idle
    /\ cmd = name
    /\ pc = "call"
    /\ routines = NoRoutines
    /\ program_before = routines
    /\ args \in inputs
    /\ result = <<>>

Apply(name, value) ==
    /\ cmd = name /\ pc = "call"
    /\ pc' = "return"
    /\ result' = value
    /\ UNCHANGED <<cmd, program_before,
                   ret, log, routines, promptVars, importVars,
                   exportVars, args>>

NoRows == [stmts |-> <<>>, count |-> 0, log |-> <<>>]

\* the row loop's body on one line and on the same line with other
\* separators, each from an empty routine
RowInputs ==
    {[line |-> JoinWith(f, s1), other |-> JoinWith(f, s2), format |-> fmt,
      fault |-> "none", api |-> NoApi] :
        <<f, s1, s2>> \in UNION {{f} \X SepChoices(f) \X SepChoices(f) :
                                    f \in RowFields},
        fmt \in {"coordinates", "joint_angles"}}

InitRow == Call("ParseRow", RowInputs)

ApplyRow ==
    Apply("ParseRow",
          [line  |-> ParseRow(NoRows, args.line, 1, args.format, args.fault,
                              args.api),
           other |-> ParseRow(NoRows, args.other, 1, args.format, args.fault,
                              args.api)])

SpecRow == InitRow /\ [][ApplyRow]_vars

InitJoints == Call("get_joint_angles_from_position", JointPositions)

ApplyJoints ==
    Apply("get_joint_angles_from_position",
          get_joint_angles_from_position(args))

SpecJoints == InitJoints /\ [][ApplyJoints]_vars

InitWpr == Call("get_wpr_from_position", WprPositions)

ApplyWpr ==
    Apply("get_wpr_from_position",
          get_wpr_from_position(args, args.PositionInReference))

SpecWpr == InitWpr /\ [][ApplyWpr]_vars

InitMatrix == Call("matrix_to_wpr", {Bare(m) : m \in Matrices})

ApplyMatrix == Apply("matrix_to_wpr", matrix_to_wpr(args.PositionInReference))

\* extract_points_from_routine, full_pose, on a path statement holding the
\* converted position and the one after it
ExtractPath ==
    /\ cmd = "matrix_to_wpr" /\ pc = "return"
    /\ pc' = "extracted"
    /\ LET acc == ExtractStatement([Type |-> "Path",
                                    Positions |-> <<args, Follower>>],
                                   "full_pose",
                                   [points |-> <<>>, log |-> <<>>])
       IN  /\ points_data' = acc.points
           /\ log' = acc.log
    /\ UNCHANGED <<cmd, program_before,
                   ret, routines, promptVars, importVars, export_format,
                   Statements, file, written, pureVars>>

SpecMatrix == InitMatrix /\ [][ApplyMatrix \/ ExtractPath]_vars

InitCodec == Call("write_csv_file", CodecInputs)

\* write_csv_file on a file that opens and takes every write
ApplyWrite ==
    /\ cmd = "write_csv_file" /\ pc = "call"
    /\ pc' = "return"
    /\ file' = [exists |-> TRUE, text |-> WriteLines(args.points, args.format)]
    /\ written' = Len(args.points)
    /\ result' = "True"
    /\ UNCHANGED <<cmd, program_before,
                   ret, log, routines, promptVars, importVars,
                   export_format, Statements, points_data, args>>

\* parse_csv_data in coordinates mode on the text written, into an empty
\* routine
ApplyParse ==
    /\ cmd = "write_csv_file" /\ pc = "return"
    /\ args.format # "joint_angles"
    /\ pc' = "parsed"
    /\ LET st == ParseLines(NoRows, Split(file.text, "\n"), 1, "coordinates",
                            NoApi)
       IN  /\ routines' = WithRoutine(FileRoutine, st.stmts)
           /\ point_count' = st.count
           /\ log' = st.log
    /\ lines' = Split(file.text, "\n")
    /\ line_num' = Len(lines')
    /\ UNCHANGED <<cmd, program_before,
                   ret, promptVars, input_data, import_format, host_api,
                   exportVars, pureVars>>

SpecCodec == InitCodec /\ [][ApplyWrite \/ ApplyParse]_vars

(***************************************************************************)
(* Properties of the import and the export command (Spec)                  *)
(***************************************************************************)
Separators == {",", ";"}

IsBlank(rawline) == \A i \in 1..Len(rawline) : rawline[i] \in Whitespace

SepPositions(line) == {i \in 1..Len(line) : line[i] \in Separators}

FieldCount(line) == 1 + Cardinality(SepPositions(line))

\* the position of the k-th separator of line; 0 and Len(line) + 1 bracket
\* the first and the last field
SepAt(line, k) ==
    IF k = 0 THEN 0
    ELSE IF k = FieldCount(line) THEN Len(line) + 1
    ELSE CHOOSE i \in SepPositions(line) :
            Cardinality({j \in SepPositions(line) : j <= i}) = k

\* the text of the k-th field of line
Field(line, k) == SubSeq(line, SepAt(line, k - 1) + 1, SepAt(line, k) - 1)

\* text that reads as a decimal number: blanks around an optional sign,
\* digits with at most one point, at least one digit
IsNumeral(text) ==
    LET s == Strip(text)
        b == IF s # <<>> /\ s[1] \in {"+", "-"} THEN Tail(s) ELSE s
    IN  /\ \A i \in 1..Len(b) : b[i] \in DigitChars \cup {"."}
        /\ Cardinality({i \in 1..Len(b) : b[i] = "."}) <= 1
        /\ \E i \in 1..Len(b) : b[i] \in DigitChars

\* a non-blank row the format cannot take: too few fields, or a required
\* field that is not a number
BadRow(rawline, format) ==
    LET line == Strip(rawline)
    IN  IF format = "coordinates"
        THEN \/ FieldCount(line) < 3
             \/ \E k \in 1..3 : ~IsNumeral(Field(line, k))
        ELSE \E k \in 1..FieldCount(line) : ~IsNumeral(Field(line, k))

Logged(i, tags) ==
    \E k \in 1..Len(log) : log[k].line = i /\ log[k].msg \in tags

\* parse_csv_data is running or has returned
Parsing == cmd = "importPointsCSV" /\ pc = "rows"

Parsed ==
    /\ cmd = "importPointsCSV" /\ pc = "done"
    /\ log # <<>>
    /\ log[Len(log)].msg \in {"imported", "no_valid_points"}

\* C1: parse_csv_data never aborts on a bad row.  After any number of rows:
\* a blank line has left no trace; a non-blank row with too few fields or a
\* non-numeric required field was reported and dropped; point_count is
\* exactly the number of non-blank rows that were neither bad nor failed by
\* the host; and the function returns only after the last line, with
\* success iff that count is not zero.
C1_BadRowsDropped ==
    (Parsing \/ Parsed) =>
        /\ \A i \in 1..line_num :
              /\ IsBlank(lines[i]) => ~Logged(i, {m.msg : m \in Range(log)})
              /\ (~IsBlank(lines[i]) /\ BadRow(lines[i], import_format))
                    => Logged(i, {"insufficient", "invalid_numeric"})
        /\ point_count =
              Cardinality({i \in 1..line_num :
                              /\ ~IsBlank(lines[i])
                              /\ ~BadRow(lines[i], import_format)
                              /\ ~Logged(i, {"unexpected_error"})})
        /\ Parsed => /\ line_num = Len(lines)
                     /\ (ret = "True") <=> (point_count > 0)

\* a finished import of a bad row followed by a good one: one point
C1_Witness ==
    /\ Parsed
    /\ Len(lines) = 2
    /\ ~IsBlank(lines[1]) /\ BadRow(lines[1], import_format)
    /\ ~IsBlank(lines[2]) /\ ~BadRow(lines[2], import_format)
    /\ point_count = 1
    /\ ret = "True"

\* C10: when the user declines the file dialog or cancels a format prompt,
\* the operation stops before any record is processed: the program's
\* routines are untouched, nothing is extracted and no file is written.
Declined ==
    \/ first_choice \in {"CANCEL", "CLOSED"}
    \/ second_choice = "CLOSED"
    \/ Logged(0, {"no_file_selected"})

\* what record processing touches
processed == <<routines, lines, line_num, point_count, Statements,
               points_data, file>>

C10_CancelAborts == [][Declined => UNCHANGED processed]_vars


Finished == cmd \in {"importPointsCSV", "exportPointsCSV"} /\ pc = "done"

\* C11: whatever the host objects and the file do, import OnStart and
\* export OnStart end by returning True or False, never by an exception.
C11_NoExceptionEscapes == Finished => ret \in {"True", "False"}

\* C12: when the export ends in failure after the file was opened, the file
\* holds either none of the export's lines or all of them.
C12_NoPartialFile ==
    (cmd = "exportPointsCSV" /\ pc = "done" /\ ret = "False" /\ file.exists)
        => \/ file.text = <<>>
           \/ file.text = WriteLines(points_data, export_format)

\* row i was decoded and the host took it
Accepted(i) ==
    /\ ~IsBlank(lines[i])
    /\ ~BadRow(lines[i], import_format)
    /\ ~Logged(i, {"unexpected_error"})

NoHostFault == \A k \in 1..Len(log) : log[k].msg # "unexpected_error"

\* the statement of accepted row i when no host call has failed
StatementOf(i) ==
    routines[FileRoutine][Cardinality({j \in 1..i : Accepted(j)})]

\* a row carrying an orientation: six fields or more, fields 4 to 6 numbers
PoseRow(line) ==
    FieldCount(line) >= 6 /\ \A k \in 4..6 : IsNumeral(Field(line, k))

FieldValue(line, k) == float(Field(line, k)).val

DefaultWPR == <<0, 180 * Scale, 0>>

\* C13 as stated: in coordinates mode a document does not yield records
\* of both kinds; rows of the other arity are rejected.
C13_SingleVariant ==
    ((Parsing \/ Parsed) /\ import_format = "coordinates") =>
        ~ \E i, j \in 1..line_num :
              /\ Accepted(i) /\ FieldCount(Strip(lines[i])) >= 6
              /\ Accepted(j) /\ FieldCount(Strip(lines[j])) < 6

\* C13 as the code has it: the format is chosen once per import, but in
\* coordinates mode every row is decoded by its own fields, whatever the
\* other rows look like: with the host taking every row, each row with
\* three numeric fields gives a statement, a row with a numeric W,P,R
\* carrying that orientation and any other row the default one, so a
\* document mixing both yields statements of both kinds.
C13_RowsDecodedAlone ==
    ((Parsing \/ Parsed) /\ import_format = "coordinates" /\ NoHostFault) =>
        /\ Len(routines[FileRoutine])
              = Cardinality({i \in 1..line_num : Accepted(i)})
        /\ \A i \in 1..line_num :
              Accepted(i) =>
                 LET line == Strip(lines[i])
                     mtx  == StatementOf(i).Positions[1].PositionInReference
                 IN  mtx.WPR = IF PoseRow(line)
                               THEN <<FieldValue(line, 4), FieldValue(line, 5),
                                      FieldValue(line, 6)>>
                               ELSE DefaultWPR

\* a position row and a pose row in one document, both imported
C13_Witness ==
    /\ Parsed /\ import_format = "coordinates"
    /\ lines = <<Join(<<F1, F2, F3>>, ","),
                 Join(<<F1, F2, F3, F2, F1, F3>>, ";")>>
    /\ point_count = 2
    /\ routines[FileRoutine][1].Positions[1].PositionInReference.WPR
          = DefaultWPR
    /\ routines[FileRoutine][2].Positions[1].PositionInReference.WPR
          = <<25 * (Scale \div 10), Scale, -3 * Scale>>

\* the numbers of the fields of a row, in field order
RowVector(line) == [k \in 1..FieldCount(line) |-> FieldValue(line, k)]

JointsMode == (Parsing \/ Parsed) /\ import_format = "joint_angles"

\* the host stores joint values in a vector of its own and takes writes
StoresJoints ==
    /\ ~(host_api.app # "absent" /\ host_api.fk = "ok")
    /\ host_api.set = "ok"
    /\ host_api.pos \notin {"absent", "setJoints"}

Applied(i) ==
    /\ Accepted(i)
    /\ StatementOf(i).Positions # <<>>
    /\ ~Logged(i, {"joints_not_set"})

\* C16: in joint_angles mode the count parse_csv_data keeps and returns is
\* the number of rows whose joint values were applied to their statement;
\* a row on which every strategy failed, or none was there, is not counted.
C16_CountsApplied ==
    JointsMode =>
        point_count = Cardinality({i \in 1..line_num : Applied(i)})

Extracting ==
    /\ cmd = "exportPointsCSV"
    /\ pc \in {"extract", "open", "write", "done"}
    /\ ret # "Raises"

\* the statement is looked at: a motion type, or more than one position
Eligible(statement) ==
    \/ statement.Type \in {"PtpMotion", "LinMotion", "Custom", "Path"}
    \/ Len(statement.Positions) > 1

\* the first position that raises; past the end if none does
Stop(statement, fmt) ==
    LET bad == {k \in 1..Len(statement.Positions) :
                   statement.Positions[k].kind = "raises"}
    IN  IF fmt = "joint_angles" \/ bad = {}
        THEN Len(statement.Positions) + 1
        ELSE CHOOSE k \in bad : \A j \in bad : k <= j

\* the positions of the statement that give a record, by index
Emitting(statement, fmt) ==
    {k \in 1..Len(statement.Positions) :
        /\ Eligible(statement)
        /\ k < Stop(statement, fmt)
        /\ statement.Positions[k].kind = "position"
        /\ IF fmt = "joint_angles"
           THEN get_joint_angles_from_position(statement.Positions[k]) # <<>>
           ELSE statement.Positions[k].PositionInReference.P # <<>>}

RecordOf(position, fmt) ==
    CASE fmt = "joint_angles" -> get_joint_angles_from_position(position)
      [] fmt = "position_only" -> position.PositionInReference.P
      [] OTHER -> position.PositionInReference.P
                  \o get_wpr_from_position(position,
                                           position.PositionInReference).wpr

\* the records of one statement, by rising position index
Contribution(statement, fmt) ==
    LET idx == Emitting(statement, fmt)
        nth(j) == CHOOSE k \in idx : Cardinality({i \in idx : i <= k}) = j
    IN  [j \in 1..Cardinality(idx) |->
            RecordOf(statement.Positions[nth(j)], fmt)]

RECURSIVE Contributions(_, _)
Contributions(statements, fmt) ==
    IF statements = <<>> THEN <<>>
    ELSE Contribution(Head(statements), fmt)
         \o Contributions(Tail(statements), fmt)

\* C17: the extracted list is, statement after statement in routine order,
\* the records of the statement's positions in index order: of all its
\* positions if it has more than one, of its first if it is a PTP, LIN,
\* CUSTOM or PATH statement with one, of none otherwise; a position that
\* raises ends its own statement only, what was collected before it stays
\* and the statements after it are still extracted.
C17_ExtractionOrder ==
    Extracting => points_data = Contributions(Statements, export_format)

\* a path whose first position raises, then a two-position statement of no
\* motion type: the second statement gives both its points
C17_Witness ==
    /\ Extracting /\ export_format = "position_only"
    /\ Len(Statements) = 2
    /\ Statements[1].Positions[1].kind = "raises"
    /\ Statements[2].Type = "Process"
    /\ points_data = <<TBroken.P, TGimbal.P>>
    /\ Logged(0, {"extract_failed"})

\* C18: after every prefix of the row loop the routine holds as many
\* statements as points were counted, the i-th counted row being the i-th
\* statement, also when a host call made after addStatement raised.
C18_StatementsMatchCount ==
    (Parsing \/ Parsed) =>
        /\ Len(routines[FileRoutine]) = point_count
        /\ import_format = "coordinates" =>
              \A i \in 1..line_num :
                  Accepted(i) =>
                      /\ StatementOf(i).Positions # <<>>
                      /\ StatementOf(i).Positions[1].PositionInReference.P
                            = <<FieldValue(Strip(lines[i]), 1),
                                FieldValue(Strip(lines[i]), 2),
                                FieldValue(Strip(lines[i]), 3)>>

\* C19: unless the overwrite prompt was answered OK, the program is as it
\* was: the existing routine is not deleted and no routine is created.
C19_DeletedOnlyOnOK ==
    (cmd = "importPointsCSV" /\ overwrite_choice \in {"CANCEL", "CLOSED"})
        => routines = program_before

\* C20: when import OnStart has returned False, the program's routines and
\* their statements are what they were when it was called.
C20_FailedImportChangesNothing ==
    (cmd = "importPointsCSV" /\ pc = "done" /\ ret = "False")
        => routines = program_before

(***************************************************************************)
(* Properties of the row decoder (SpecRow)                                 *)
(***************************************************************************)
\* C2: a line and the same line with any of its commas and semicolons
\* exchanged decode alike: both rows are accepted or both dropped with the
\* same report, and an accepted row gives the same statement, field by field.
C2_SeparatorsAlike ==
    (cmd = "ParseRow" /\ pc = "return") => result.line = result.other

\* "1;2.5, -3" against "1,2.5; -3": both accepted with position 1, 2.5, -3
C2_Witness ==
    /\ cmd = "ParseRow" /\ pc = "return"
    /\ args.format = "coordinates"
    /\ args.line = JoinWith(<<F1, F2, F3>>, <<";", ",">>)
    /\ args.other = JoinWith(<<F1, F2, F3>>, <<",", ";">>)
    /\ result.other.count = 1
    /\ result.other.stmts[1].Positions[1].PositionInReference.P
          = <<Scale, 25 * (Scale \div 10), -3 * Scale>>

RowDone == cmd = "ParseRow" /\ pc = "return"

\* C14: in coordinates mode a row whose first three fields are numbers
\* gives exactly one statement at (x, y, z); with fewer than six fields, or
\* a field 4 to 6 that is not a number, the statement has the default
\* orientation (and the latter is reported), otherwise the orientation is
\* W,P,R of fields 4 to 6; nothing behind the sixth field matters.
C14_OrientationFallback ==
    (RowDone /\ args.format = "coordinates") =>
        LET line == Strip(args.line)
            out  == result.line
        IN  (FieldCount(line) >= 3 /\ \A k \in 1..3 : IsNumeral(Field(line, k)))
            => /\ out.count = 1
               /\ Len(out.stmts) = 1
               /\ LET mtx == out.stmts[1].Positions[1].PositionInReference
                  IN  /\ mtx.P = <<FieldValue(line, 1), FieldValue(line, 2),
                                   FieldValue(line, 3)>>
                      /\ mtx.WPR = IF PoseRow(line)
                                   THEN <<FieldValue(line, 4),
                                          FieldValue(line, 5),
                                          FieldValue(line, 6)>>
                                   ELSE DefaultWPR
               /\ out.log = IF FieldCount(line) >= 6 /\ ~PoseRow(line)
                            THEN <<Msg("invalid_orientation", 1)>>
                            ELSE <<>>

\* "1,2.5, -3,2.5,x, -3": imported at 1, 2.5, -3 with the default orientation
C14_Witness ==
    /\ RowDone /\ args.format = "coordinates"
    /\ args.line = Join(<<F1, F2, F3, F2, Fx, F3>>, ",")
    /\ result.line.count = 1
    /\ result.line.log = <<Msg("invalid_orientation", 1)>>
    /\ result.line.stmts[1].Positions[1].PositionInReference
          = [P |-> <<Scale, 25 * (Scale \div 10), -3 * Scale>>,
             WPR |-> DefaultWPR]

(***************************************************************************)
(* Properties of the joint unit heuristic (SpecJoints)                     *)
(***************************************************************************)
JointsDone == cmd = "get_joint_angles_from_position" /\ pc = "return"

\* the vector the function reads: the first non-empty of the position's
\* JointValues, its frame's JointValues, its frame's JointConfiguration
RawVector ==
    IF args.JointValues # <<>> THEN args.JointValues
    ELSE IF args.Frame.JointValues # <<>> THEN args.Frame.JointValues
    ELSE args.Frame.JointConfiguration

\* 171.88 < d < 171.89 degrees
About171_9(d) == 171880 * (Scale \div 1000) < d /\ d < 171890 * (Scale \div 1000)

\* C5 as stated: a raw value of exactly pi comes back unchanged, and 3.0
\* comes back as about 171.9 degrees.
C5_PiUnchanged ==
    JointsDone =>
        \A i \in 1..Len(RawVector) :
            /\ RawVector[i] = math_pi => result[i] = math_pi
            /\ RawVector[i] = 3 * Scale => About171_9(result[i])

\* C5 as the code has it: the test is strict, so exactly pi is not above pi
\* and is converted, to 180 degrees; the next value above pi is the first
\* one returned unchanged; 3.0 is converted to about 171.9 degrees.
C5_PiConverted ==
    JointsDone =>
        \A i \in 1..Len(RawVector) :
            /\ RawVector[i] = math_pi => result[i] = 180 * Scale
            /\ RawVector[i] = math_pi + 1 => result[i] = math_pi + 1
            /\ RawVector[i] = 3 * Scale => About171_9(result[i])

C5_Witness ==
    /\ JointsDone
    /\ args.JointValues = <<math_pi, 3 * Scale>>
    /\ result[1] = 180 * Scale
    /\ About171_9(result[2])

\* C6: the result has the length and the order of the vector that was read,
\* and each component is decided on its own: above pi in magnitude it is
\* returned as it is, otherwise it is multiplied by 180/pi; a position with
\* no joint vector gives None.
C6_PerJoint ==
    JointsDone =>
        /\ Len(result) = Len(RawVector)
        /\ \A i \in 1..Len(RawVector) :
              result[i] = IF Abs(RawVector[i]) > math_pi THEN RawVector[i]
                          ELSE RadToDeg(RawVector[i])

\* a frame's vector mixing both regimes: 90 stays, -pi becomes -180
C6_Witness ==
    /\ JointsDone
    /\ args.JointValues = <<>>
    /\ args.Frame.JointValues = <<90 * Scale, -math_pi>>
    /\ result = <<90 * Scale, -180 * Scale>>

(***************************************************************************)
(* Properties of the orientation read from the host (SpecWpr)              *)
(***************************************************************************)
WprDone == cmd = "get_wpr_from_position" /\ pc = "return"

\* the triple the function reads from the host, if any place holds one
RawWpr ==
    IF Len(args.WPR) >= 3 THEN args.WPR
    ELSE IF Len(args.Frame.WPR) >= 3 THEN args.Frame.WPR
    ELSE args.PositionInReference.getWPR

\* C7 as stated: each of W, P, R read from the host is left unchanged if
\* its magnitude exceeds pi and is otherwise multiplied by 180/pi.
C7_EachAgainstPi ==
    (WprDone /\ Len(RawWpr) >= 3) =>
        \A i \in 1..3 :
            result.wpr[i] = IF Abs(RawWpr[i]) > math_pi THEN RawWpr[i]
                            ELSE RadToDeg(RawWpr[i])

\* C7 as the code has it: the triple read from position.WPR, frame.WPR or
\* transform.getWPR() is converted as a whole: all three angles are
\* multiplied by 180/pi when all three magnitudes are below 10, and all
\* three are left unchanged otherwise.
C7_TripleAgainstTen ==
    (WprDone /\ Len(RawWpr) >= 3) =>
        LET small == \A i \in 1..3 : Abs(RawWpr[i]) < 10 * Scale
        IN  \A i \in 1..3 :
                result.wpr[i] = IF small THEN RadToDeg(RawWpr[i])
                                ELSE RawWpr[i]

\* 3.5 is above pi and is still converted; 0.5 beside 90 is not
C7_Witness ==
    /\ WprDone
    /\ \/ /\ args.Frame.WPR = <<35 * (Scale \div 10), 0, Scale \div 2>>
          /\ args.WPR = <<Scale>>
          /\ result.wpr[1] > 200 * Scale
          /\ result.wpr[2] = 0
       \/ /\ args.WPR = <<90 * Scale, Scale \div 2, 0>>
          /\ result.wpr = <<90 * Scale, Scale \div 2, 0>>

(***************************************************************************)
(* Properties of matrix_to_wpr and its caller (SpecMatrix)                 *)
(***************************************************************************)
MatrixDone == cmd = "matrix_to_wpr" /\ pc # "call"

matrix == args.PositionInReference

\* atan2 in degrees for directions on the axes and the diagonals
Atan2Degrees(y, x) ==
    LET sy == IF y > 0 THEN 1 ELSE IF y < 0 THEN -1 ELSE 0
        sx == IF x > 0 THEN 1 ELSE IF x < 0 THEN -1 ELSE 0
    IN  Scale * (IF sx = 1 THEN 45 * sy
                 ELSE IF sx = 0 THEN 90 * sy
                 ELSE IF sy = 0 THEN 180 ELSE 135 * sy)

InRange == matrix.N # <<>> /\ Abs(matrix.N[3]) <= Unit

\* C8: P is asin(-nz) in degrees; where cos(P) vanishes (nz = -1 or 1)
\* R is 0 and W is atan2(ox, ax); in every other case W is atan2(ny, nx)
\* and R is atan2(oz, az), all in degrees.
C8_GimbalLock ==
    (MatrixDone /\ InRange) =>
        LET nz == matrix.N[3]
            w  == result.wpr[1]
            p  == result.wpr[2]
            r  == result.wpr[3]
        IN  /\ p = -90 * nz
            /\ IF Abs(nz) = Unit
               THEN r = 0 /\ w = Atan2Degrees(matrix.O[1], matrix.A[1])
               ELSE /\ w = Atan2Degrees(matrix.N[2], matrix.N[1])
                    /\ r = Atan2Degrees(matrix.O[3], matrix.A[3])

\* nz = -1, P = 90, ox = 1, ax = -1: W = 135 though atan2(ny, nx) is 45
C8_Witness ==
    /\ MatrixDone
    /\ matrix.N = <<Unit, Unit, -Unit>>
    /\ matrix.O = <<Unit, 0, Unit>>
    /\ matrix.A = <<-Unit, 0, Unit>>
    /\ result.wpr = <<135 * Scale, 90 * Scale, 0>>

\* C9: matrix_to_wpr returns a triple for every matrix; where the
\* computation raises (asin outside [-1, 1], a matrix without its axes) the
\* triple is exactly (0, 0, 0) and the warning is printed, and the
\* full-pose extraction still emits the record, with zero angles, and then
\* the record of the next position.
C9_FailSoft ==
    /\ MatrixDone => Len(result.wpr) = 3
    /\ (MatrixDone /\ ~InRange) =>
           /\ result.wpr = <<0, 0, 0>>
           /\ result.warned
    /\ (MatrixDone /\ ~InRange /\ pc = "extracted") =>
           /\ points_data = <<matrix.P \o <<0, 0, 0>>,
                              TGimbal.P \o <<0, 90 * Scale, 0>>>>
           /\ log = <<Msg("wpr_failed", 0)>>

C9_Witness ==
    /\ MatrixDone /\ pc = "extracted"
    /\ matrix.N # <<>>
    /\ matrix.N[3] = 2 * Unit
    /\ result.warned
    /\ Len(points_data) = 2
    /\ points_data[1] = <<Scale, -2 * Scale, 5, 0, 0, 0>>

(***************************************************************************)
(* Properties of the written text and of its re-import (SpecCodec)         *)
(***************************************************************************)
Written == cmd = "write_csv_file" /\ pc # "call"

Reimported == cmd = "write_csv_file" /\ pc = "parsed"

\* digits, a point, exactly six digits, behind an optional minus sign
IsFixed6(f) ==
    LET body  == IF f # <<>> /\ Head(f) = "-" THEN Tail(f) ELSE f
        parts == Split(body, ".")
    IN  /\ Len(parts) = 2
        /\ Len(parts[1]) >= 1 /\ AllDigits(parts[1])
        /\ Len(parts[2]) = 6 /\ AllDigits(parts[2])

FieldsNeeded(point, fmt) ==
    CASE fmt = "position_only" -> 3
      [] fmt = "full_pose"     -> 6
      [] OTHER                           -> Len(point)

\* the distance of a written field from the value it was written for
Off(f, v) == Abs(float(f).val - v)

\* C3: the text is one line per record in list order, each ended by one
\* newline, nothing before, between or after them; a line has 3, 6 or N
\* comma-joined fields by format, each in fixed-point form with exactly six
\* decimals, and each the rounding of the record's value at that place.
C3_ExportEncoding ==
    Written =>
        LET rows == Split(file.text, "\n")
            n    == Len(args.points)
        IN  /\ Len(rows) = n + 1
            /\ rows[n + 1] = <<>>
            /\ \A i \in 1..n :
                  LET fields == Split(rows[i], ",")
                      need   == FieldsNeeded(args.points[i], args.format)
                  IN  /\ Len(fields) = need
                      /\ \A j \in 1..need :
                            /\ IsFixed6(fields[j])
                            /\ 2 * Off(fields[j], args.points[i][j]) <= 10

\* two records of six joints and of two, written in that order
C3_Witness ==
    /\ Written
    /\ args.format = "joint_angles"
    /\ args.points = <<<<Scale, -Scale, 25, 0, 10 * Scale + 5, -180 * Scale>>,
                       <<-5, 1800000000>>>>
    /\ Len(Split(file.text, "\n")) = 3
    /\ Split(Split(file.text, "\n")[2], ",")
          = << <<"-", "0", ".", "0", "0", "0", "0", "0", "0">>,
               <<"1", "8", "0", ".", "0", "0", "0", "0", "0", "0">> >>

Decoded(i) == routines[FileRoutine][i].Positions[1].PositionInReference.P

\* |a - b| <= d, with values of opposite sign compared by magnitude so that
\* the difference of two large values is never formed
Within(a, b, d) ==
    IF (a < 0) = (b < 0)
    THEN Abs(a - b) <= d
    ELSE Abs(a) <= d /\ Abs(b) <= d /\ Abs(a) + Abs(b) <= d

\* C4: position records written as position_only and read back in
\* coordinates mode give as many statements, in the same order, each with
\* x, y and z within 1e-6 of the record's.
C4_RoundTrip ==
    (Reimported /\ args.format = "position_only") =>
        /\ point_count = Len(args.points)
        /\ Len(routines[FileRoutine]) = Len(args.points)
        /\ log = <<>>
        /\ \A i \in 1..Len(args.points) :
              \A j \in 1..3 : Within(Decoded(i)[j], args.points[i][j], 10)

\* two different records, both with negative and rounded coordinates
C4_Witness ==
    /\ Reimported
    /\ args.format = "position_only"
    /\ args.points = << <<-4, 15, 25>>, <<9999996, -9999995, 10 * Scale>> >>
    /\ point_count = 2
    /\ Decoded(1) = <<0, 20, 20>>
    /\ Decoded(2) = <<Scale, -Scale, 10 * Scale>>
=============================================================================
